---------------------------- MODULE Spec2Model ----------------------------
(***************************************************************************)
(* Campsite availability checker: camping.py (the availability engine and  *)
(* the polling loop) and teleBot.py (argument parsing and the chat handler *)
(* that starts the loop and delivers its result).                          *)
(*                                                                         *)
(* Values.  A datetime is a record [year, month, day] (every datetime of   *)
(* the program is at midnight).  A formatted date, the text                *)
(* "YYYY-MM-DDT00:00:00Z" or "YYYY-MM-DD", is the number YYYYMMDD: its     *)
(* digits in order.  A Python list is a sequence, a dict is a sequence of  *)
(* <<key, value>> pairs in insertion order (iteration order matters to the *)
(* code), None is the empty sequence where a value is optional.            *)
(***************************************************************************)
EXTENDS Integers, Sequences, FiniteSets, TLC

VARIABLES
    pc,                \* position of the process (see the actions)
    cfg,               \* the arguments: argv, then what echo passes on
    count,             \* execute_check_every_min: count
    park_i,            \* get_availabilities: index of park_id in parks
    api_data,          \* get_park_information: api_data
    park_information,  \* get_availabilities: park_information
    availabilities,    \* get_availabilities: availabilities
    last,              \* get_availabilities: emoji, name_of_site, park_id, current, maximum
    logged,            \* the per-park LOG.info lines of the running evaluation
    fetched,           \* the requests sent by the running evaluation, in order
    in_loop,           \* execute_check_every_min: inside the while loop (line 204)
    sink,              \* what update.message.reply_text delivered, in order
    upstream,          \* the reservation service: "varying" or "open"
    call,              \* pure-function specifications: the arguments
    ret                \* pure-function specifications: the result

vars == <<pc, cfg, count, park_i, api_data, park_information, availabilities,
          last, logged, fetched, in_loop, sink, upstream, call, ret>>

loopVars == <<cfg, count, park_i, api_data, park_information, availabilities,
              last, logged, fetched, in_loop, sink, upstream>>

-----------------------------------------------------------------------------
(* Bounds of the model. *)

FirstYear == 2023
NumYears == 2
MaxParks == 2
MaxCount == 2
MaxListed == 4
MaxMonthRecords == 2

Range(s) == {s[i] : i \in DOMAIN s}

SeqsUpTo(S, n) == UNION {[1..k -> S] : k \in 0..n}

-----------------------------------------------------------------------------
(* datetime: the proleptic Gregorian calendar of Python's datetime. *)

IsLeap(y) == (y % 4 = 0 /\ y % 100 # 0) \/ y % 400 = 0

DaysInMonth(y, m) ==
    IF m = 2 THEN (IF IsLeap(y) THEN 29 ELSE 28)
    ELSE IF m \in {4, 6, 9, 11} THEN 30 ELSE 31

DaysBeforeYear(y) ==
    (y - 1) * 365 + ((y - 1) \div 4) - ((y - 1) \div 100) + ((y - 1) \div 400)

\* The days of a common year before each month.
CommonDaysBeforeMonth == <<0, 31, 59, 90, 120, 151, 181, 212, 243, 273, 304, 334>>

DaysBeforeMonth(y, m) ==
    CommonDaysBeforeMonth[m] + (IF m > 2 /\ IsLeap(y) THEN 1 ELSE 0)

Date(y, m, d) == [year |-> y, month |-> m, day |-> d]

\* datetime.toordinal(): days since 0001-01-01, which is day 1.
toordinal(dt) ==
    DaysBeforeYear(dt.year) + DaysBeforeMonth(dt.year, dt.month) + dt.day

\* datetime.fromordinal(n), as date - timedelta computes its result.
fromordinal(n) ==
    LET y == CHOOSE yy \in ((n \div 366) + 1)..((n \div 365) + 1) :
                 DaysBeforeYear(yy) < n /\ n <= DaysBeforeYear(yy + 1)
        r == n - DaysBeforeYear(y)
        m == CHOOSE mm \in 1..12 :
                 DaysBeforeMonth(y, mm) < r
                 /\ r <= DaysBeforeMonth(y, mm) + DaysInMonth(y, mm)
    IN  Date(y, m, r - DaysBeforeMonth(y, m))

\* datetime's <= : years, then months, then days.
DateLE(a, b) ==
    \/ a.year < b.year
    \/ a.year = b.year /\ a.month < b.month
    \/ a.year = b.year /\ a.month = b.month /\ a.day <= b.day

DateLT(a, b) == DateLE(a, b) /\ a # b

\* format_date / strftime: the digits of the year, the month and the day.
format_date(dt) == dt.year * 10000 + dt.month * 100 + dt.day

\* datetime.strptime on a formatted date.
strptime(s) == Date(s \div 10000, (s \div 100) % 100, s % 100)

-----------------------------------------------------------------------------
(* get_park_information, lines 80-82: the first of each month to query.    *)

AddMonth(dt) ==
    IF dt.month = 12 THEN Date(dt.year + 1, 1, dt.day)
    ELSE Date(dt.year, dt.month + 1, dt.day)

\* rrule.rrule(MONTHLY, dtstart, until): dtstart and every month after it
\* up to and including until.
RECURSIVE rrule_monthly(_, _)
rrule_monthly(dtstart, until) ==
    IF DateLE(dtstart, until)
    THEN <<dtstart>> \o rrule_monthly(AddMonth(dtstart), until)
    ELSE <<>>

\* The same recurrence with until left out of the result.
RECURSIVE rrule_monthly_exclusive(_, _)
rrule_monthly_exclusive(dtstart, until) ==
    IF DateLT(dtstart, until)
    THEN <<dtstart>> \o rrule_monthly_exclusive(AddMonth(dtstart), until)
    ELSE <<>>

months_until_exclusive(start_date, end_date) ==
    rrule_monthly_exclusive(Date(start_date.year, start_date.month, 1), end_date)

\* The recurrence started at start_date itself, not at the first of its month.
months_from_start_day(start_date, end_date) == rrule_monthly(start_date, end_date)

months(start_date, end_date) ==
    rrule_monthly(Date(start_date.year, start_date.month, 1), end_date)

-----------------------------------------------------------------------------
(* get_park_information, lines 93-109: collapse the monthly responses into *)
(* {campsite_id: [date, ...]}.  A response is [campsites |-> dict], a      *)
(* campsite's data [campsite_type |-> text, availabilities |-> dict].      *)

None == <<>>

\* Python truth of an optional text: None and "" are false.
Truthy(opt) == opt # None /\ opt[1] # ""

\* Lines 98-104: the dates of one campsite of one response that are kept.
RECURSIVE available_dates(_, _, _)
available_dates(avs, site_type, campsite_type) ==
    IF avs = <<>> THEN <<>>
    ELSE LET date == Head(avs)[1]
             availability_value == Head(avs)[2]
             rest == available_dates(Tail(avs), site_type, campsite_type)
         IN  IF availability_value # "Available" THEN rest
             ELSE IF Truthy(campsite_type) /\ campsite_type[1] # site_type THEN rest
             ELSE <<date>> \o rest

\* Lines 105-107: a = data.setdefault(campsite_id, []); a += available.
setdefault_extend(data, campsite_id, available) ==
    IF \E i \in DOMAIN data : data[i][1] = campsite_id
    THEN LET i == CHOOSE j \in DOMAIN data : data[j][1] = campsite_id
         IN  [data EXCEPT ![i] = <<campsite_id, data[i][2] \o available>>]
    ELSE Append(data, <<campsite_id, available>>)

\* Lines 97-107: the campsites of one response.
RECURSIVE collapse_month(_, _, _)
collapse_month(data, campsites, campsite_type) ==
    IF campsites = <<>> THEN data
    ELSE LET campsite_id == Head(campsites)[1]
             campsite_data == Head(campsites)[2]
             available == available_dates(campsite_data.availabilities,
                                          campsite_data.campsite_type, campsite_type)
             next == IF available # <<>>
                     THEN setdefault_extend(data, campsite_id, available)
                     ELSE data
         IN  collapse_month(next, Tail(campsites), campsite_type)

\* Lines 95-109: every response, in the order fetched.
RECURSIVE collapse(_, _, _)
collapse(data, responses, campsite_type) ==
    IF responses = <<>> THEN data
    ELSE collapse(collapse_month(data, Head(responses).campsites, campsite_type),
                  Tail(responses), campsite_type)

-----------------------------------------------------------------------------
(* get_num_available_sites and consecutive_nights, lines 118-151.          *)
(* A night count is [kind, val]: kind "none" (None), "int" or "str" (the   *)
(* chat handler passes the token of the message, a text).                  *)

NoNights == [kind |-> "none", val |-> 0]
IntNights(n) == [kind |-> "int", val |-> n]
StrNights(n) == [kind |-> "str", val |-> n]

\* nights in range(1, num_days + 1): only an int can be a member.
in_range(nights, num_days) ==
    nights.kind = "int" /\ 1 <= nights.val /\ nights.val < num_days + 1

Max(S) == CHOOSE x \in S : \A y \in S : y <= x

\* itertools.groupby over key(x) = x - next(c), c = count(): the lengths of
\* the groups of neighbouring items with equal key.
RECURSIVE group_lengths(_, _, _)
group_lengths(ordinal_dates, i, run) ==
    \* i: the index of the item that ends the current group of length run
    IF i = Len(ordinal_dates) THEN <<run>>
    ELSE IF ordinal_dates[i + 1] - i = ordinal_dates[i] - (i - 1)
         THEN group_lengths(ordinal_dates, i + 1, run + 1)
         ELSE <<run>> \o group_lengths(ordinal_dates, i + 1, 1)

\* Lines 144-151.  max() of no groups raises ValueError: here Max of the
\* empty set, which has no value.
consecutive_nights(available, nights) ==
    LET ordinal_dates == [i \in DOMAIN available |-> toordinal(strptime(available[i]))]
        longest_consecutive ==
            IF ordinal_dates = <<>> THEN Max({})
            ELSE Max(Range(group_lengths(ordinal_dates, 1, 1)))
    IN  longest_consecutive >= nights

\* Lines 122-124: the formatted dates of the nights of the stay.
window_dates(start_date, end_date) ==
    LET num_days == toordinal(end_date) - toordinal(start_date)
    IN  {format_date(fromordinal(toordinal(end_date) - i)) : i \in 1..num_days}

\* Lines 126-128.
effective_nights(nights, num_days) ==
    IF ~in_range(nights, num_days) THEN num_days ELSE nights.val

\* Lines 131-137: one site of the park.
site_available(avail, dates, nights) ==
    LET desired_available == SelectSeq(avail, LAMBDA date : date \in dates)
    IN  desired_available # <<>> /\ consecutive_nights(desired_available, nights)

\* Lines 118-141: <<num_available, maximum>>.
get_num_available_sites(park_info, start_date, end_date, nights) ==
    LET maximum == Len(park_info)
        num_days == toordinal(end_date) - toordinal(start_date)
        dates == window_dates(start_date, end_date)
        n == effective_nights(nights, num_days)
        num_available ==
            Cardinality({i \in DOMAIN park_info : site_available(park_info[i][2], dates, n)})
    IN  <<num_available, maximum>>

-----------------------------------------------------------------------------
(* The state of the process before any message arrives, and of a           *)
(* specification that only evaluates one function.                         *)

NoLine == [emoji |-> "", name |-> "", park_id |-> 0, current |-> 0, maximum |-> 0]

NoCfg == [start_date |-> Date(FirstYear, 1, 1), end_date |-> Date(FirstYear, 1, 1),
          parks |-> <<>>, stdin |-> FALSE, campsite_type |-> None, nights |-> NoNights]

LoopAtRest ==
    /\ cfg = NoCfg
    /\ count = 1
    /\ park_i = 1
    /\ api_data = <<>>
    /\ park_information = <<>>
    /\ availabilities = FALSE
    /\ last = NoLine
    /\ logged = <<>>
    /\ fetched = <<>>
    /\ in_loop = FALSE
    /\ sink = <<>>
    /\ upstream = "varying"

-----------------------------------------------------------------------------
(* Specification SpecMonths: get_park_information's month anchors on every *)
(* pair of dates of WindowDates.                                           *)

Years == FirstYear..(FirstYear + NumYears - 1)

WindowDates ==
    {Date(y, m, d) : y \in Years, m \in 1..12, d \in {1, 15, 28}}
    \cup {Date(y, m, DaysInMonth(y, m)) : y \in Years, m \in 1..12}

InitMonths ==
    /\ pc = "call"
    /\ call \in [start_date : WindowDates, end_date : WindowDates]
    /\ ret = <<>>
    /\ LoopAtRest

EvalMonths ==
    /\ pc = "call"
    /\ pc' = "return"
    /\ ret' = months(call.start_date, call.end_date)
    /\ UNCHANGED <<call, loopVars>>

SpecMonths == InitMonths /\ [][EvalMonths]_vars

-----------------------------------------------------------------------------
(* Specification SpecCollapse: get_park_information's collapse of up to    *)
(* MaxMonthRecords monthly responses, with and without a type filter.      *)

CollapseDates == {format_date(Date(FirstYear + 1, 6, d)) : d \in 1..2}

Statuses == {"Available", "Reserved"}

SiteTypes == {"STANDARD NONELECTRIC", "STANDARD ELECTRIC"}

\* The availabilities of a campsite: a dict, so no date is a key twice.
AvailabilityDicts ==
    {a \in SeqsUpTo(CollapseDates \X Statuses, Cardinality(CollapseDates)) :
        \A i, j \in DOMAIN a : a[i][1] = a[j][1] => i = j}

CampsiteData(type) ==
    {[campsite_type |-> type, availabilities |-> a] : a \in AvailabilityDicts}

\* A response names campsite 1 (non-electric), or campsites 1 and 2
\* (electric), or none.
CollapseResponses ==
    {[campsites |-> <<>>]}
    \cup {[campsites |-> << <<1, d>> >>] : d \in CampsiteData("STANDARD NONELECTRIC")}
    \cup {[campsites |-> << <<1, d>>, <<2, e>> >>] :
              d \in CampsiteData("STANDARD NONELECTRIC"),
              e \in CampsiteData("STANDARD ELECTRIC")}

TypeFilters == {None, <<"">>} \cup {<<t>> : t \in SiteTypes}

InitCollapse ==
    /\ pc = "call"
    /\ call \in [api_data : SeqsUpTo(CollapseResponses, MaxMonthRecords),
                 campsite_type : TypeFilters]
    /\ ret = <<>>
    /\ LoopAtRest

EvalCollapse ==
    /\ pc = "call"
    /\ pc' = "return"
    /\ ret' = collapse(<<>>, call.api_data, call.campsite_type)
    /\ UNCHANGED <<call, loopVars>>

SpecCollapse == InitCollapse /\ [][EvalCollapse]_vars

-----------------------------------------------------------------------------
(* Specification SpecSites: get_num_available_sites on a park of one site  *)
(* whose dates are listed in any order, with repeats, over every window of *)
(* SiteDates and every night count.                                        *)

\* Five days across the end of February of a leap or common year.
SiteDates == {fromordinal(toordinal(Date(FirstYear + 1, 2, 26)) + k) : k \in 1..5}

NightCounts == {NoNights} \cup {IntNights(n) : n \in 0..5} \cup {StrNights(2)}

InitSites ==
    /\ pc = "call"
    /\ \E listed \in SeqsUpTo({format_date(d) : d \in SiteDates}, MaxListed) :
       \E s, e \in SiteDates, n \in NightCounts :
          /\ listed # <<>>
          /\ DateLT(s, e)
          /\ call = [park_information |-> << <<1, listed>> >>,
                     start_date |-> s, end_date |-> e, nights |-> n]
    /\ ret = <<0, 0>>
    /\ LoopAtRest

EvalSites ==
    /\ pc = "call"
    /\ pc' = "return"
    /\ ret' = get_num_available_sites(call.park_information, call.start_date,
                                      call.end_date, call.nights)
    /\ UNCHANGED <<call, loopVars>>

SpecSites == InitSites /\ [][EvalSites]_vars

-----------------------------------------------------------------------------
(* Properties of the month anchors, the collapse and the run detector.     *)

\* Months since year 0 of the month a datetime lies in.
MonthNumber(dt) == dt.year * 12 + (dt.month - 1)

FirstOfMonthNumber(k) == Date(k \div 12, (k % 12) + 1, 1)

\* C8: for every date range with start < end the month anchors are exactly
\* the first days of the months from the month containing start through the
\* month containing end, one each, in chronological order, whatever the days
\* of the month of start and end (end on the 1st of a month included).
C8_MonthAnchors ==
    (pc = "return" /\ DateLT(call.start_date, call.end_date)) =>
        LET lo == MonthNumber(call.start_date)
            n == MonthNumber(call.end_date) - lo + 1
        IN  /\ Len(ret) = n
            /\ \A i \in 1..n : ret[i] = FirstOfMonthNumber(lo + i - 1)

\* A range from the middle of a month to the 1st of a month of the next
\* year: the anchors run across the year's end and include the last month.
C8_Witness ==
    /\ pc = "return"
    /\ call.start_date.day = 15
    /\ call.end_date.day = 1
    /\ call.end_date.year = call.start_date.year + 1
    /\ Len(ret) >= 3
    /\ ret[Len(ret)] = call.end_date

\* The dates of a site that the collapse is to keep: those some response
\* marks "Available", under a campsite type equal to the filter if one is set.
ExpectedDates(responses, filter, campsite_id) ==
    {a[1] : a \in UNION {Range(c[2].availabilities) :
                c \in {c \in UNION {Range(r.campsites) : r \in Range(responses)} :
                          /\ c[1] = campsite_id
                          /\ (Truthy(filter) => c[2].campsite_type = filter[1])}}
          \cap (CollapseDates \X {"Available"})}

NoRepeat(list) == \A i, j \in DOMAIN list : list[i] = list[j] => i = j

\* The result maps exactly the sites with a kept date, each to its kept dates.
CollapseKeepsTheDates ==
    pc = "return" =>
        /\ \A i, j \in DOMAIN ret : ret[i][1] = ret[j][1] => i = j
        /\ \A i \in DOMAIN ret : ret[i][2] # <<>>
        /\ \A id \in 1..2 :
              LET want == ExpectedDates(call.api_data, call.campsite_type, id)
              IN  IF want = {} THEN \A i \in DOMAIN ret : ret[i][1] # id
                  ELSE \E i \in DOMAIN ret : ret[i][1] = id /\ Range(ret[i][2]) = want

\* C7: get_park_information maps each site to exactly the set of its dates
\* that are "Available" in some response (under the filter, if set), no date
\* repeated, and leaves out a site with no such date.
C7_CollapseIsSet ==
    /\ CollapseKeepsTheDates
    /\ pc = "return" => \A i \in DOMAIN ret : NoRepeat(ret[i][2])

\* The longest run of consecutive calendar days in a set of formatted dates.
LongestRun(S) ==
    LET ords == {toordinal(strptime(d)) : d \in S}
    IN  IF ords = {} THEN 0
        ELSE Max({k \in 1..Cardinality(ords) :
                     \E o \in ords : \A j \in 0..(k - 1) : (o + j) \in ords})

CallNumDays == toordinal(call.end_date) - toordinal(call.start_date)

CallWindow == window_dates(call.start_date, call.end_date)

CallListed == call.park_information[1][2]

\* C5: the site counts as available iff the longest run of consecutive
\* nights among its dates inside the window is at least the night count,
\* in whatever order the dates are listed and however often.
C5_RunDetector ==
    pc = "return" =>
        (ret[1] = 1 <=>
            LongestRun(Range(CallListed) \cap CallWindow)
                >= effective_nights(call.nights, CallNumDays))

\* C6: a night count that is unset or outside 1..(end - start) is replaced by
\* end - start, and then the site counts iff it is listed for every night of
\* the window; a night count inside the range is used as given.
C6_DefaultNights ==
    pc = "return" =>
        /\ (call.nights.kind = "int" /\ call.nights.val \in 1..CallNumDays) =>
               effective_nights(call.nights, CallNumDays) = call.nights.val
        /\ ~(call.nights.kind = "int" /\ call.nights.val \in 1..CallNumDays) =>
               /\ effective_nights(call.nights, CallNumDays) = CallNumDays
               /\ (ret[1] = 1 <=> CallWindow \subseteq Range(CallListed))

-----------------------------------------------------------------------------
(* Specification Spec: one run of the bot.  main parses argv, echo takes   *)
(* one chat message and calls execute_check_every_min, whose evaluations   *)
(* (get_availabilities) send one request per step.                         *)
(*                                                                         *)
(* pc: "main" (argv not parsed yet), "Exited" (the process ended before    *)
(* polling), "idle" (waiting for a message), "month" (get_park_information *)
(* is about to query a month), "name" (get_name_of_site is about to send   *)
(* its request), "sleep" (in time.sleep), "Done" (the loop returned and    *)
(* echo delivered the result), "Raised" (the loop re-raised an exception). *)

ParkIds == 101..(100 + MaxParks)

\* Three days across the end of January.
LoopDays == {fromordinal(toordinal(Date(FirstYear + 1, 1, 30)) + k) : k \in 0..2}

\* The --parks lists: the first park, the first two, ... in the order given.
ParkLists == {[i \in 1..n |-> 100 + i] : n \in 1..MaxParks}

FirstLoopDay == CHOOSE d \in LoopDays : \A e \in LoopDays : DateLE(d, e)

LastLoopDay == CHOOSE d \in LoopDays : \A e \in LoopDays : DateLE(e, d)

\* The date ranges asked for: every range of LoopDays with start before end,
\* one with start equal to end and one with start after end.
Windows ==
    {w \in LoopDays \X LoopDays : DateLT(w[1], w[2])}
    \cup {<<LastLoopDay, LastLoopDay>>, <<LastLoopDay, FirstLoopDay>>}

\* What the command line can say: --parks needs one park or more, --stdin
\* leaves args.parks None, --nights is any integer text.  (A campsite type
\* comes with the chat messages below.)
Argvs ==
    {[start_date |-> w[1], end_date |-> w[2], parks |-> p, stdin |-> FALSE,
      campsite_type |-> None, nights |-> n] :
        w \in Windows, p \in ParkLists,
        n \in {NoNights} \cup {IntNights(k) : k \in {0, 1, 3}}}
    \cup {[start_date |-> w[1], end_date |-> w[2], parks |-> <<>>, stdin |-> TRUE,
           campsite_type |-> None, nights |-> NoNights] : w \in Windows}

\* The tokens of a chat message, len(arglist) of them: the two dates, one
\* park, and with 4 or 5 tokens the campsite type (one word: the text is
\* split at every space) and the night count.
Messages ==
    {[len |-> 0]}
    \cup {[len |-> l, start_date |-> w[1], end_date |-> w[2], park |-> p,
           type |-> "MANAGEMENT", nights |-> 2] :
            l \in 3..5, w \in Windows, p \in ParkIds}

\* teleBot.py lines 126-131, applied by argparse to --nights.
positive_int(i) == i > 0

\* A send_request that raises on nothing.
raises_never(resp) == FALSE

\* camping.py line 47: the statuses send_request raises on.
raises(resp) == resp.status_code # 200

\* A loop that never looks at the result.
keeps_polling_always(avail) == TRUE

\* camping.py line 201: while not availabilities.
keeps_polling(avail) == ~avail

FacilityName(park_id) == IF park_id = 101 THEN "Upper Pines" ELSE "Lower Pines"

LoopMonths == {Date(d.year, d.month, 1) : d \in LoopDays}

RECURSIVE Ascending(_)
Ascending(T) ==
    IF T = {} THEN <<>>
    ELSE LET x == CHOOSE y \in T : \A z \in T : y <= z
         IN  <<x>> \o Ascending(T \ {x})

Reverse(q) == [i \in DOMAIN q |-> q[Len(q) + 1 - i]]

\* The days of LoopDays in each month, a month's days in that month's
\* answer only.  A JSON object has no order of its own: the service may
\* list the days in calendar order or against it.
MonthDays ==
    [anchor \in LoopMonths |->
        LET days == Ascending({format_date(d) : d \in {d \in LoopDays :
                        d.year = anchor.year /\ d.month = anchor.month}})
        IN  {days, Reverse(days)}]

Campsite(id, type, status, days) ==
    <<id, [campsite_type |-> type,
           availabilities |-> [i \in DOMAIN days |-> <<days[i], status>>]]>>

NoJson == [campsites |-> <<>>]

\* The answers of the service with its campsite open on every day.
OpenResponses ==
    [anchor \in LoopMonths |->
        {[status_code |-> 200, json |-> [campsites |->
             <<Campsite(1, "MANAGEMENT", "Available", days)>>]] :
            days \in MonthDays[anchor]}]

\* What the availability endpoint may answer for a month while it varies:
\* the campsite open, a failure, the campsite reserved, or a second campsite
\* of another type open beside it.
VaryingResponses ==
    [anchor \in LoopMonths |->
        LET days == CHOOSE d \in MonthDays[anchor] : d = Ascending(Range(d))
        IN  OpenResponses[anchor] \cup
            {[status_code |-> 500, json |-> NoJson],
             [status_code |-> 200, json |-> [campsites |->
                 <<Campsite(1, "MANAGEMENT", "Reserved", days)>>]],
             [status_code |-> 200, json |-> [campsites |->
                 <<Campsite(1, "MANAGEMENT", "Available", days),
                   Campsite(2, "STANDARD ELECTRIC", "Available", days)>>]]}]

\* The service answers for the month its start_date parameter lies in.
MonthResponses(start_date) ==
    LET anchor == Date(start_date.year, start_date.month, 1)
    IN  IF upstream = "open" THEN OpenResponses[anchor] ELSE VaryingResponses[anchor]

\* What the campground endpoint may answer.
NameResponses(park_id) ==
    {[status_code |-> 200, json |-> FacilityName(park_id)]}
    \cup (IF upstream = "open" THEN {}
          ELSE {[status_code |-> 500, json |-> ""]})

Request(kind, park_id, start_date, resp) ==
    [kind |-> kind, park_id |-> park_id, start_date |-> start_date,
     status_code |-> resp.status_code]

CfgMonths == months(cfg.start_date, cfg.end_date)

Init ==
    /\ pc = "main"
    /\ cfg = NoCfg
    /\ count = 1
    /\ park_i = 1
    /\ api_data = <<>>
    /\ park_information = <<>>
    /\ availabilities = FALSE
    /\ last = NoLine
    /\ logged = <<>>
    /\ fetched = <<>>
    /\ in_loop = FALSE
    /\ sink = <<>>
    /\ upstream = "varying"
    /\ call = <<>>
    /\ ret = <<>>

\* teleBot.py lines 133-179: argv is parsed.  argparse rejects a night
\* count that is not positive; with --stdin line 178 reads sys, which the
\* module never imports.
main_from(argvs) ==
    /\ pc = "main"
    /\ \E argv \in argvs :
          /\ cfg' = argv
          /\ pc' = IF argv.stdin
                      \/ (argv.nights.kind = "int" /\ ~positive_int(argv.nights.val))
                   THEN "Exited" ELSE "idle"
    /\ UNCHANGED <<count, park_i, api_data, park_information, availabilities,
                   last, logged, fetched, in_loop, sink, upstream, call, ret>>

main == main_from(Argvs)

\* get_availabilities from the top of an iteration of its for loop to the
\* first request of park i (lines 157-158 and 80-90).
StartPark(c, i) ==
    /\ park_i' = i
    /\ api_data' = <<>>
    /\ park_information' = <<>>
    /\ pc' = IF months(c.start_date, c.end_date) = <<>> THEN "name" ELSE "month"

\* get_availabilities from its call to the first request (lines 155-158).
StartEvaluation(c) ==
    /\ availabilities' = FALSE
    /\ last' = NoLine
    /\ logged' = <<>>
    /\ fetched' = <<>>
    /\ StartPark(c, 1)

\* teleBot.py lines 47-80: the arguments echo calls the loop with, from the
\* message if it has three tokens or more, else from argv.
echo_arguments(msg) ==
    IF msg.len >= 3
    THEN [start_date |-> msg.start_date, end_date |-> msg.end_date,
          parks |-> <<msg.park>>, stdin |-> FALSE,
          campsite_type |-> IF msg.len \in {4, 5} THEN <<msg.type>> ELSE None,
          nights |-> IF msg.len = 5 THEN StrNights(msg.nights) ELSE NoNights]
    ELSE cfg

\* teleBot.py lines 47-80 and camping.py lines 189-199: echo announces the
\* check and calls execute_check_every_min, which starts its first evaluation.
echo_from(messages) ==
    /\ pc = "idle"
    /\ \E msg \in messages :
          /\ cfg' = echo_arguments(msg)
          /\ StartEvaluation(cfg')
    /\ sink' = Append(sink, [kind |-> "announce", lines |-> <<>>, closing |-> <<>>])
    /\ count' = 1
    /\ in_loop' = FALSE
    /\ UNCHANGED <<upstream, call, ret>>

echo == echo_from(Messages)

\* camping.py lines 207-210 after send_request raised (lines 47-53): the
\* exception is logged and raised again; echo does not catch it.
Raise ==
    /\ pc' = "Raised"
    /\ UNCHANGED <<cfg, count, park_i, api_data, park_information, availabilities,
                   last, logged, in_loop, sink, upstream, call, ret>>

\* camping.py lines 86-109: one availability request, and after the last
\* month the collapse of the responses.
FetchMonth ==
    /\ pc = "month"
    /\ LET month_date == CfgMonths[Len(api_data) + 1]
           park_id == cfg.parks[park_i]
       IN  \E resp \in MonthResponses(month_date) :
              /\ fetched' = Append(fetched,
                     Request("availability", park_id, format_date(month_date), resp))
              /\ IF raises(resp) THEN Raise
                 ELSE /\ api_data' = Append(api_data, resp.json)
                      /\ IF Len(api_data') = Len(CfgMonths)
                         THEN /\ park_information' =
                                     collapse(<<>>, api_data', cfg.campsite_type)
                              /\ pc' = "name"
                         ELSE /\ park_information' = park_information
                              /\ pc' = "month"
                      /\ UNCHANGED <<cfg, count, park_i, availabilities, last, logged,
                                     in_loop, sink, upstream, call, ret>>

\* camping.py lines 178-186: the text get_availabilities returns.
summary(c, line) ==
    [kind |-> "outcome", lines |-> <<line>>,
     closing |-> <<format_date(c.start_date), format_date(c.end_date)>>]

\* camping.py lines 178-186 and 199-206, teleBot.py lines 81-82: the end of
\* an evaluation.  With availability the loop returns the text and echo
\* delivers it; without, the loop sleeps.
EndEvaluation(avail, line) ==
    /\ count' = IF in_loop /\ count < MaxCount THEN count + 1 ELSE count
    /\ IF keeps_polling(avail)
       THEN /\ pc' = "sleep"
            /\ sink' = sink
       ELSE /\ pc' = "Done"
            /\ sink' = Append(sink, summary(cfg, line))
    /\ UNCHANGED <<park_i, api_data, park_information>>

\* camping.py lines 164-176: the name request of a park, its count and its
\* log line; then the next park (line 157) or the end of the evaluation.
FetchName ==
    /\ pc = "name"
    /\ LET park_id == cfg.parks[park_i]
       IN  \E resp \in NameResponses(park_id) :
              /\ fetched' = Append(fetched, Request("name", park_id, 0, resp))
              /\ IF raises(resp) THEN Raise
                 ELSE LET got == get_num_available_sites(park_information,
                                     cfg.start_date, cfg.end_date, cfg.nights)
                          line == [emoji |-> IF got[1] # 0 THEN "SUCCESS" ELSE "FAILURE",
                                   name |-> resp.json, park_id |-> park_id,
                                   current |-> got[1], maximum |-> got[2]]
                      IN  /\ last' = line
                          /\ availabilities' = (availabilities \/ got[1] # 0)
                          /\ logged' = Append(logged, line)
                          /\ IF park_i < Len(cfg.parks)
                             THEN /\ StartPark(cfg, park_i + 1)
                                  /\ UNCHANGED <<count, sink>>
                             ELSE EndEvaluation(availabilities', line)
                          /\ UNCHANGED <<cfg, in_loop, upstream, call, ret>>

\* camping.py lines 202-204: the sleep ends, the try is logged and the next
\* evaluation starts.
Sleep ==
    /\ pc = "sleep"
    /\ in_loop' = TRUE
    /\ StartEvaluation(cfg)
    /\ UNCHANGED <<cfg, count, sink, upstream, call, ret>>

\* The service comes to have its campsite open on every day, and stays so.
UpstreamOpens ==
    /\ upstream = "varying"
    /\ pc \in {"month", "name", "sleep"}
    /\ upstream' = "open"
    /\ UNCHANGED <<pc, cfg, count, park_i, api_data, park_information, availabilities,
                   last, logged, fetched, in_loop, sink, call, ret>>

Step == FetchMonth \/ FetchName \/ Sleep

Next == main \/ echo \/ FetchMonth \/ FetchName \/ Sleep \/ UpstreamOpens

Spec == Init /\ [][Next]_vars

(* Specification FairSpec: the same run on fewer command lines and        *)
(* messages, with the process running on: a request returns, a sleep ends. *)

FairArgvs ==
    {argv \in Argvs : /\ ~argv.stdin
                      /\ argv.nights = NoNights
                      /\ argv.parks[1] = 101}

FairMessages ==
    {msg \in Messages : msg.len = 0 \/ (msg.len = 5 /\ msg.park = 102
                                        /\ msg.start_date # LastLoopDay)}

FairMain == main_from(FairArgvs)

FairEcho == echo_from(FairMessages)

FairNext == FairMain \/ FairEcho \/ FetchMonth \/ FetchName \/ Sleep \/ UpstreamOpens

FairSpec == Init /\ [][FairNext]_vars /\ WF_vars(Step)

-----------------------------------------------------------------------------
(* Properties of the polling loop.                                         *)

Evaluating == pc \in {"month", "name"}

Polling == pc \in {"month", "name", "sleep"}

Outcomes(sk) == {i \in DOMAIN sk : sk[i].kind = "outcome"}

Qualifies(lines) == \E i \in DOMAIN lines : lines[i].current > 0

\* An evaluation runs to its end in this step.
EvaluationEnds == Evaluating /\ pc' \in {"sleep", "Done"}

\* C1: the loop leaves Polling for Done exactly when an evaluation ends with
\* a park whose count of qualifying sites is above zero; the outcome reaches
\* the sink in that step and in no other; from Done nothing more is sent.
C1_DoneOnFirstQualifying ==
    [][/\ EvaluationEnds => (pc' = "Done" <=> Qualifies(logged'))
       /\ (pc # "Done" /\ pc' = "Done") =>
              /\ EvaluationEnds
              /\ Len(sink') = Len(sink) + 1
              /\ sink'[Len(sink')].kind = "outcome"
       /\ ~(pc # "Done" /\ pc' = "Done") => Outcomes(sink') = Outcomes(sink)
       /\ pc = "Done" => UNCHANGED <<pc, fetched, sink>>]_vars

\* Done after a try that found nothing: the second evaluation qualified on
\* its first park only.
C1_Witness ==
    /\ pc = "Done"
    /\ in_loop
    /\ Len(logged) = 2
    /\ logged[1].current > 0
    /\ logged[2].current = 0
    /\ Cardinality(Outcomes(sink)) = 1

\* C2: a request answered with a status other than 200 is the last request
\* of the run: the loop has raised, and no outcome was delivered.
C2_FailedFetchAborts ==
    \A i \in DOMAIN fetched :
        fetched[i].status_code # 200 =>
            /\ i = Len(fetched)
            /\ pc = "Raised"
            /\ Outcomes(sink) = {}

\* The name request of the first of two parks failed in a later try.
C2_Witness ==
    /\ pc = "Raised"
    /\ in_loop
    /\ Len(cfg.parks) = 2
    /\ park_i = 1
    /\ Len(fetched) >= 2
    /\ fetched[Len(fetched)].kind = "name"
    /\ fetched[Len(fetched)].status_code # 200

\* C3: the summary delivered has one line for every park of the evaluation,
\* each with that park's glyph, name, identifier and counts, and then the
\* closing line with the date range.
C3_SummaryListsEveryPark ==
    pc = "Done" =>
        /\ sink[Len(sink)].lines = logged
        /\ sink[Len(sink)].closing =
               <<format_date(cfg.start_date), format_date(cfg.end_date)>>

ConfigurationError(c) ==
    \/ ~DateLT(c.start_date, c.end_date)
    \/ c.parks = <<>>
    \/ /\ c.nights.kind # "none"
       /\ c.nights.val \notin 1..(toordinal(c.end_date) - toordinal(c.start_date))

\* C4: with a configuration error the run never polls and never sends a
\* request.
C4_ConfigurationRejected ==
    ConfigurationError(cfg) => (~Polling /\ pc # "Done" /\ fetched = <<>>)

\* The requests of one evaluation: for each park in list order its months
\* in chronological order, then its name.
ExpectedRequests(c) ==
    LET lo == MonthNumber(c.start_date)
        span == MonthNumber(c.end_date) - lo + 1
        n == IF span > 0 THEN span ELSE 0
    IN  [k \in 1..(Len(c.parks) * (n + 1)) |->
            LET p == ((k - 1) \div (n + 1)) + 1
                j == ((k - 1) % (n + 1)) + 1
            IN  IF j <= n
                THEN [kind |-> "availability", park_id |-> c.parks[p],
                      start_date |-> format_date(FirstOfMonthNumber(lo + j - 1))]
                ELSE [kind |-> "name", park_id |-> c.parks[p], start_date |-> 0]]

Sent == [i \in DOMAIN fetched |->
            [kind |-> fetched[i].kind, park_id |-> fetched[i].park_id,
             start_date |-> fetched[i].start_date]]

\* C9: the requests of an evaluation are sent in the order of ExpectedRequests,
\* and an evaluation that ends without error has sent all of them, once each:
\* parks x months + parks.
C9_RequestsInOrder ==
    pc \notin {"main", "idle", "Exited"} =>
        /\ Len(Sent) <= Len(ExpectedRequests(cfg))
        /\ Sent = SubSeq(ExpectedRequests(cfg), 1, Len(Sent))
        /\ pc \in {"sleep", "Done"} =>
               /\ Sent = ExpectedRequests(cfg)
               /\ Len(fetched) = Len(cfg.parks) * Len(CfgMonths) + Len(cfg.parks)

\* Two parks over two months: six requests, and nothing found.
C9_Witness ==
    /\ pc = "sleep"
    /\ Len(cfg.parks) = 2
    /\ cfg.parks[1] # cfg.parks[2]
    /\ Len(CfgMonths) = 2
    /\ Len(fetched) = 6

\* C10: an evaluation that ends with no park qualifying leaves the loop in
\* its sleep; an evaluation starts only from the sleep before it (or from
\* echo); the sleep can always end, whatever the count of tries; and once
\* the service has every campsite open the loop reaches Done.
C10_PollsUntilAvailable ==
    /\ [][/\ (EvaluationEnds /\ ~Qualifies(logged')) => pc' = "sleep"
          /\ (fetched' = <<>> /\ fetched # <<>>) => (pc = "sleep" /\ Evaluating')
          /\ (pc = "sleep" /\ pc' # "sleep") => (Evaluating' /\ fetched' = <<>>)]_vars
    /\ [](pc = "sleep" => ENABLED Sleep)
    /\ (upstream = "open" /\ Polling /\ DateLT(cfg.start_date, cfg.end_date))
           ~> (pc = "Done")

=============================================================================
